---- MODULE Spec2Model ----
(***************************************************************************)
(* Model of the accounting engine of transactions-engine (src/engine.rs).  *)
(*                                                                         *)
(* The engine owns two maps, accounts and transactions, and one entry      *)
(* point, handle_transaction, which dispatches on the transaction variant  *)
(* to deposit, withdraw, dispute, resolve or chargeback.  Each handler is  *)
(* an operator that computes, from the current maps, the maps after the    *)
(* call and the returned bool; one action per transaction variant applies  *)
(* it as one atomic step (the engine is single-threaded).                  *)
(*                                                                         *)
(* Besides the two maps, the state keeps what a caller of                  *)
(* handle_transaction can observe about the latest call: the transaction   *)
(* passed (handled), the bool returned (returned) and the engine as the    *)
(* call found it (before).  The properties relate these to the maps after  *)
(* the call.  ledger keeps, per transaction id, the client and amount of   *)
(* the Deposit or Withdrawal that was applied under it, which the engine   *)
(* itself forgets for withdrawals and for resolved and charged-back ids.   *)
(*                                                                         *)
(* A second specification, SpecMain, models main (src/main.rs): the rows   *)
(* of the input are decoded by TryFrom<TransactionRow> one at a time and   *)
(* fed to the engine, a decode error ends the run, and the account records *)
(* are written after the last row.                                         *)
(*                                                                         *)
(* Amounts are D128 decimals.  D128 is signed, so an amount may be         *)
(* negative or zero; the handlers do not look at the sign.  Amounts are    *)
(* modelled as integers counting a fixed decimal unit, on which +, - and < *)
(* are exact, as they are for D128 on values of this size.                 *)
(***************************************************************************)
EXTENDS Integers, FiniteSets, Sequences, TLC

\* ---------------------------------------------------------------- bounds
MaxClient == 2
MaxTx == 2
MaxAmount == 1

CustomerId == 1..MaxClient
TransactionId == 1..MaxTx
\* the values the amount of a Deposit or Withdrawal ranges over
D128 == (0 - MaxAmount)..MaxAmount

\* ----------------------------------------------------------------- state
VARIABLES
    accounts,      \* AccountingEngine.accounts: CustomerId -> Account, partial
    transactions,  \* AccountingEngine.transactions: TransactionId -> TransactionState, partial
    handled,       \* the transaction of the latest handle_transaction call
    returned,      \* the bool that call returned
    before,        \* the engine (both maps) as that call found it
    panicked,      \* an expect() in a handler has failed: the process is gone
    ledger,        \* per transaction id, the Deposit or Withdrawal that was applied under it
    input,         \* main: the rows of the input file, in file order
    pos,           \* main: how many rows the reader has yielded
    fed,           \* main: the transactions passed to handle_transaction, in call order
    pc,            \* main: "running" in the loop, "failed" after result?, "done" after the output
    output         \* main: the account records written to stdout

engineVars == <<accounts, transactions, handled, returned, before, panicked, ledger>>
mainVars == <<input, pos, fed, pc, output>>
vars == <<accounts, transactions, handled, returned, before, panicked, ledger,
          input, pos, fed, pc, output>>

NoTransaction == [type |-> "None"]

\* ------------------------------------------------------------ data model
\* #[derive(Default)] struct Account
DefaultAccount == [available |-> 0, held |-> 0, locked |-> FALSE]

\* enum TransactionState
Deposited(client, amount) == [state |-> "Deposited", client |-> client, amount |-> amount]
Withdrawed == [state |-> "Withdrawed"]
Disputed(client, amount) == [state |-> "Disputed", client |-> client, amount |-> amount]
Resolved == [state |-> "Resolved"]
ChargedBack == [state |-> "ChargedBack"]

\* enum Transaction
Transaction ==
    [type : {"Deposit", "Withdrawal"}, client : CustomerId, tx : TransactionId, amount : D128]
    \cup [type : {"Dispute", "Resolve", "Chargeback"}, client : CustomerId, tx : TransactionId]

\* -------------------------------------------------------------- helpers
\* self.accounts.entry(client).or_default(): the map with client present
or_default(accs, client) ==
    IF client \in DOMAIN accs
    THEN accs
    ELSE [c \in DOMAIN accs \cup {client} |->
            IF c = client THEN DefaultAccount ELSE accs[c]]

\* Vacant(entry) => entry.insert(state); *transaction = state
insert(txs, tx, state) ==
    [t \in DOMAIN txs \cup {tx} |-> IF t = tx THEN state ELSE txs[t]]

\* what a handler leaves behind: the two maps, the returned bool, and
\* whether it panicked instead of returning
Outcome(accs, txs, ret) ==
    [accounts |-> accs, transactions |-> txs, ret |-> ret, panic |-> FALSE]
Panic ==
    [accounts |-> accounts, transactions |-> transactions, ret |-> FALSE, panic |-> TRUE]

\* ------------------------------------------------------------- handlers
\* deposit without the Occupied arm: a reused id overwrites the record
deposit_overwrite(client, tx, amount) ==
    LET accs == or_default(accounts, client) IN
    IF accs[client].locked
    THEN Outcome(accs, transactions, FALSE)
    ELSE Outcome([accs EXCEPT ![client].available = @ + amount],
                 insert(transactions, tx, Deposited(client, amount)), TRUE)

\* fn deposit
deposit(client, tx, amount) ==
    LET accs == or_default(accounts, client) IN
    IF accs[client].locked
    THEN Outcome(accs, transactions, FALSE)
    ELSE IF tx \in DOMAIN transactions
    THEN Outcome(accs, transactions, FALSE)
    ELSE Outcome([accs EXCEPT ![client].available = @ + amount],
                 insert(transactions, tx, Deposited(client, amount)), TRUE)

\* withdraw judging sufficiency by available + held instead of available
withdraw_by_total(client, tx, amount) ==
    LET accs == or_default(accounts, client) IN
    IF accs[client].locked \/ accs[client].available + accs[client].held < amount
    THEN Outcome(accs, transactions, FALSE)
    ELSE IF tx \in DOMAIN transactions
    THEN Outcome(accs, transactions, FALSE)
    ELSE Outcome([accs EXCEPT ![client].available = @ - amount],
                 insert(transactions, tx, Withdrawed), TRUE)

\* withdraw recording the id the way deposit does
withdraw_records_deposit(client, tx, amount) ==
    LET accs == or_default(accounts, client) IN
    IF accs[client].locked \/ accs[client].available < amount
    THEN Outcome(accs, transactions, FALSE)
    ELSE IF tx \in DOMAIN transactions
    THEN Outcome(accs, transactions, FALSE)
    ELSE Outcome([accs EXCEPT ![client].available = @ - amount],
                 insert(transactions, tx, Deposited(client, amount)), TRUE)

\* withdraw debiting the account before it looks the id up
withdraw_debits_before_lookup(client, tx, amount) ==
    LET accs == or_default(accounts, client) IN
    IF accs[client].locked \/ accs[client].available < amount
    THEN Outcome(accs, transactions, FALSE)
    ELSE IF tx \in DOMAIN transactions
    THEN Outcome([accs EXCEPT ![client].available = @ - amount], transactions, FALSE)
    ELSE Outcome([accs EXCEPT ![client].available = @ - amount],
                 insert(transactions, tx, Withdrawed), TRUE)

\* withdraw without the available < amount check
withdraw_overdraws(client, tx, amount) ==
    LET accs == or_default(accounts, client) IN
    IF accs[client].locked
    THEN Outcome(accs, transactions, FALSE)
    ELSE IF tx \in DOMAIN transactions
    THEN Outcome(accs, transactions, FALSE)
    ELSE Outcome([accs EXCEPT ![client].available = @ - amount],
                 insert(transactions, tx, Withdrawed), TRUE)

\* fn withdraw
withdraw(client, tx, amount) ==
    LET accs == or_default(accounts, client) IN
    IF accs[client].locked \/ accs[client].available < amount
    THEN Outcome(accs, transactions, FALSE)
    ELSE IF tx \in DOMAIN transactions
    THEN Outcome(accs, transactions, FALSE)
    ELSE Outcome([accs EXCEPT ![client].available = @ - amount],
                 insert(transactions, tx, Withdrawed), TRUE)

\* dispute refusing to act on a locked account, as deposit and withdraw do
dispute_blocked_by_lock(client, tx) ==
    IF tx \notin DOMAIN transactions
    THEN Outcome(accounts, transactions, FALSE)
    ELSE IF transactions[tx].state # "Deposited"
    THEN Outcome(accounts, transactions, FALSE)
    ELSE IF transactions[tx].client # client
    THEN Outcome(accounts, transactions, FALSE)
    ELSE IF client \notin DOMAIN accounts
    THEN Panic
    ELSE IF accounts[client].locked
    THEN Outcome(accounts, transactions, FALSE)
    ELSE LET amount == transactions[tx].amount IN
         Outcome([accounts EXCEPT ![client].held = @ + amount,
                                  ![client].available = @ - amount],
                 insert(transactions, tx, Disputed(client, amount)), TRUE)

\* dispute refusing to hold more than the account has available
dispute_needs_available(client, tx) ==
    IF tx \notin DOMAIN transactions
    THEN Outcome(accounts, transactions, FALSE)
    ELSE IF transactions[tx].state # "Deposited"
    THEN Outcome(accounts, transactions, FALSE)
    ELSE IF transactions[tx].client # client
    THEN Outcome(accounts, transactions, FALSE)
    ELSE IF client \notin DOMAIN accounts
    THEN Panic
    ELSE IF accounts[client].available < transactions[tx].amount
    THEN Outcome(accounts, transactions, FALSE)
    ELSE LET amount == transactions[tx].amount IN
         Outcome([accounts EXCEPT ![client].held = @ + amount,
                                  ![client].available = @ - amount],
                 insert(transactions, tx, Disputed(client, amount)), TRUE)

\* dispute without the deposit_client != client check: it looks up the
\* account of whoever asks
dispute_any_client(client, tx) ==
    IF tx \notin DOMAIN transactions
    THEN Outcome(accounts, transactions, FALSE)
    ELSE IF transactions[tx].state # "Deposited"
    THEN Outcome(accounts, transactions, FALSE)
    ELSE IF client \notin DOMAIN accounts
    THEN Panic
    ELSE LET amount == transactions[tx].amount IN
         Outcome([accounts EXCEPT ![client].held = @ + amount,
                                  ![client].available = @ - amount],
                 insert(transactions, tx, Disputed(client, amount)), TRUE)

\* fn dispute
dispute(client, tx) ==
    IF tx \notin DOMAIN transactions
    THEN Outcome(accounts, transactions, FALSE)
    ELSE IF transactions[tx].state # "Deposited"
    THEN Outcome(accounts, transactions, FALSE)
    ELSE IF transactions[tx].client # client
    THEN Outcome(accounts, transactions, FALSE)
    ELSE IF client \notin DOMAIN accounts
    THEN Panic
    ELSE LET amount == transactions[tx].amount IN
         Outcome([accounts EXCEPT ![client].held = @ + amount,
                                  ![client].available = @ - amount],
                 insert(transactions, tx, Disputed(client, amount)), TRUE)

\* resolve putting the transaction back to Deposited instead of Resolved
resolve_back_to_deposited(client, tx) ==
    IF tx \notin DOMAIN transactions
    THEN Outcome(accounts, transactions, FALSE)
    ELSE IF transactions[tx].state # "Disputed"
    THEN Outcome(accounts, transactions, FALSE)
    ELSE IF transactions[tx].client # client
    THEN Outcome(accounts, transactions, FALSE)
    ELSE IF client \notin DOMAIN accounts
    THEN Panic
    ELSE LET amount == transactions[tx].amount IN
         Outcome([accounts EXCEPT ![client].held = @ - amount,
                                  ![client].available = @ + amount],
                 insert(transactions, tx, Deposited(client, amount)), TRUE)

\* resolve without the deposit_client != client check: it acts on the
\* account of whoever asks
resolve_any_client(client, tx) ==
    IF tx \notin DOMAIN transactions
    THEN Outcome(accounts, transactions, FALSE)
    ELSE IF transactions[tx].state # "Disputed"
    THEN Outcome(accounts, transactions, FALSE)
    ELSE IF client \notin DOMAIN accounts
    THEN Panic
    ELSE LET amount == transactions[tx].amount IN
         Outcome([accounts EXCEPT ![client].held = @ - amount,
                                  ![client].available = @ + amount],
                 insert(transactions, tx, Resolved), TRUE)

\* resolve reopening the account: it clears locked
resolve_unlocks(client, tx) ==
    IF tx \notin DOMAIN transactions
    THEN Outcome(accounts, transactions, FALSE)
    ELSE IF transactions[tx].state # "Disputed"
    THEN Outcome(accounts, transactions, FALSE)
    ELSE IF transactions[tx].client # client
    THEN Outcome(accounts, transactions, FALSE)
    ELSE IF client \notin DOMAIN accounts
    THEN Panic
    ELSE LET amount == transactions[tx].amount IN
         Outcome([accounts EXCEPT ![client].held = @ - amount,
                                  ![client].available = @ + amount,
                                  ![client].locked = FALSE],
                 insert(transactions, tx, Resolved), TRUE)

\* resolve releasing the hold without giving the amount back to available
resolve_keeps_available(client, tx) ==
    IF tx \notin DOMAIN transactions
    THEN Outcome(accounts, transactions, FALSE)
    ELSE IF transactions[tx].state # "Disputed"
    THEN Outcome(accounts, transactions, FALSE)
    ELSE IF transactions[tx].client # client
    THEN Outcome(accounts, transactions, FALSE)
    ELSE IF client \notin DOMAIN accounts
    THEN Panic
    ELSE LET amount == transactions[tx].amount IN
         Outcome([accounts EXCEPT ![client].held = @ - amount],
                 insert(transactions, tx, Resolved), TRUE)

\* fn resolve
resolve(client, tx) ==
    IF tx \notin DOMAIN transactions
    THEN Outcome(accounts, transactions, FALSE)
    ELSE IF transactions[tx].state # "Disputed"
    THEN Outcome(accounts, transactions, FALSE)
    ELSE IF transactions[tx].client # client
    THEN Outcome(accounts, transactions, FALSE)
    ELSE IF client \notin DOMAIN accounts
    THEN Panic
    ELSE LET amount == transactions[tx].amount IN
         Outcome([accounts EXCEPT ![client].held = @ - amount,
                                  ![client].available = @ + amount],
                 insert(transactions, tx, Resolved), TRUE)

\* chargeback accepting a transaction that is Deposited or Disputed
chargeback_from_deposited(client, tx) ==
    IF tx \notin DOMAIN transactions
    THEN Outcome(accounts, transactions, FALSE)
    ELSE IF transactions[tx].state \notin {"Deposited", "Disputed"}
    THEN Outcome(accounts, transactions, FALSE)
    ELSE IF transactions[tx].client # client
    THEN Outcome(accounts, transactions, FALSE)
    ELSE IF client \notin DOMAIN accounts
    THEN Panic
    ELSE LET amount == transactions[tx].amount IN
         Outcome([accounts EXCEPT ![client].held = @ - amount,
                                  ![client].locked = TRUE],
                 insert(transactions, tx, ChargedBack), TRUE)

\* chargeback releasing the held amount to available, as resolve does
chargeback_refunds(client, tx) ==
    IF tx \notin DOMAIN transactions
    THEN Outcome(accounts, transactions, FALSE)
    ELSE IF transactions[tx].state # "Disputed"
    THEN Outcome(accounts, transactions, FALSE)
    ELSE IF transactions[tx].client # client
    THEN Outcome(accounts, transactions, FALSE)
    ELSE IF client \notin DOMAIN accounts
    THEN Panic
    ELSE LET amount == transactions[tx].amount IN
         Outcome([accounts EXCEPT ![client].held = @ - amount,
                                  ![client].available = @ + amount,
                                  ![client].locked = TRUE],
                 insert(transactions, tx, ChargedBack), TRUE)

\* chargeback that locks the account but leaves the amount held
chargeback_keeps_held(client, tx) ==
    IF tx \notin DOMAIN transactions
    THEN Outcome(accounts, transactions, FALSE)
    ELSE IF transactions[tx].state # "Disputed"
    THEN Outcome(accounts, transactions, FALSE)
    ELSE IF transactions[tx].client # client
    THEN Outcome(accounts, transactions, FALSE)
    ELSE IF client \notin DOMAIN accounts
    THEN Panic
    ELSE Outcome([accounts EXCEPT ![client].locked = TRUE],
                 insert(transactions, tx, ChargedBack), TRUE)

\* chargeback that removes the held amount but does not lock the account
chargeback_no_lock(client, tx) ==
    IF tx \notin DOMAIN transactions
    THEN Outcome(accounts, transactions, FALSE)
    ELSE IF transactions[tx].state # "Disputed"
    THEN Outcome(accounts, transactions, FALSE)
    ELSE IF transactions[tx].client # client
    THEN Outcome(accounts, transactions, FALSE)
    ELSE IF client \notin DOMAIN accounts
    THEN Panic
    ELSE LET amount == transactions[tx].amount IN
         Outcome([accounts EXCEPT ![client].held = @ - amount],
                 insert(transactions, tx, ChargedBack), TRUE)

\* fn chargeback
chargeback(client, tx) ==
    IF tx \notin DOMAIN transactions
    THEN Outcome(accounts, transactions, FALSE)
    ELSE IF transactions[tx].state # "Disputed"
    THEN Outcome(accounts, transactions, FALSE)
    ELSE IF transactions[tx].client # client
    THEN Outcome(accounts, transactions, FALSE)
    ELSE IF client \notin DOMAIN accounts
    THEN Panic
    ELSE LET amount == transactions[tx].amount IN
         Outcome([accounts EXCEPT ![client].held = @ - amount,
                                  ![client].locked = TRUE],
                 insert(transactions, tx, ChargedBack), TRUE)

\* account_states reporting available as the total
account_states_total_is_available ==
    { [client |-> c,
       available |-> accounts[c].available,
       held |-> accounts[c].held,
       total |-> accounts[c].available,
       locked |-> accounts[c].locked] : c \in DOMAIN accounts }

\* pub fn account_states: one record per account, total derived on read
account_states ==
    { [client |-> c,
       available |-> accounts[c].available,
       held |-> accounts[c].held,
       total |-> accounts[c].available + accounts[c].held,
       locked |-> accounts[c].locked] : c \in DOMAIN accounts }

\* -------------------------------------------------------------- actions
\* the engine as a call finds it
self == [accounts |-> accounts, transactions |-> transactions]

\* ledger after a Deposit or Withdrawal of the given kind that returned ret
record_applied(kind, client, tx, amount, ret) ==
    IF ret
    THEN insert(ledger, tx, [kind |-> kind, client |-> client, amount |-> amount])
    ELSE ledger

\* AccountingEngine::default()
Init ==
    /\ accounts = << >>
    /\ transactions = << >>
    /\ handled = NoTransaction
    /\ returned = FALSE
    /\ before = [accounts |-> << >>, transactions |-> << >>]
    /\ panicked = FALSE
    /\ ledger = << >>
    /\ input = << >>
    /\ pos = 0
    /\ fed = << >>
    /\ pc = "running"
    /\ output = {}

\* handle_transaction(Transaction::Deposit { client, tx, amount })
Deposit ==
    \E client \in CustomerId, tx \in TransactionId, amount \in D128 :
        LET r == deposit(client, tx, amount) IN
        /\ ~panicked
        /\ accounts' = r.accounts
        /\ transactions' = r.transactions
        /\ returned' = r.ret
        /\ panicked' = r.panic
        /\ handled' = [type |-> "Deposit", client |-> client, tx |-> tx, amount |-> amount]
        /\ before' = self
        /\ ledger' = record_applied("Deposit", client, tx, amount, r.ret)
        /\ UNCHANGED mainVars

\* handle_transaction(Transaction::Withdrawal { client, tx, amount })
Withdrawal ==
    \E client \in CustomerId, tx \in TransactionId, amount \in D128 :
        LET r == withdraw(client, tx, amount) IN
        /\ ~panicked
        /\ accounts' = r.accounts
        /\ transactions' = r.transactions
        /\ returned' = r.ret
        /\ panicked' = r.panic
        /\ handled' = [type |-> "Withdrawal", client |-> client, tx |-> tx, amount |-> amount]
        /\ before' = self
        /\ ledger' = record_applied("Withdrawal", client, tx, amount, r.ret)
        /\ UNCHANGED mainVars

\* handle_transaction(Transaction::Dispute { client, tx })
Dispute ==
    \E client \in CustomerId, tx \in TransactionId :
        LET r == dispute(client, tx) IN
        /\ ~panicked
        /\ accounts' = r.accounts
        /\ transactions' = r.transactions
        /\ returned' = r.ret
        /\ panicked' = r.panic
        /\ handled' = [type |-> "Dispute", client |-> client, tx |-> tx]
        /\ before' = self
        /\ UNCHANGED <<ledger, input, pos, fed, pc, output>>

\* handle_transaction(Transaction::Resolve { client, tx })
Resolve ==
    \E client \in CustomerId, tx \in TransactionId :
        LET r == resolve(client, tx) IN
        /\ ~panicked
        /\ accounts' = r.accounts
        /\ transactions' = r.transactions
        /\ returned' = r.ret
        /\ panicked' = r.panic
        /\ handled' = [type |-> "Resolve", client |-> client, tx |-> tx]
        /\ before' = self
        /\ UNCHANGED <<ledger, input, pos, fed, pc, output>>

\* handle_transaction(Transaction::Chargeback { client, tx })
Chargeback ==
    \E client \in CustomerId, tx \in TransactionId :
        LET r == chargeback(client, tx) IN
        /\ ~panicked
        /\ accounts' = r.accounts
        /\ transactions' = r.transactions
        /\ returned' = r.ret
        /\ panicked' = r.panic
        /\ handled' = [type |-> "Chargeback", client |-> client, tx |-> tx]
        /\ before' = self
        /\ UNCHANGED <<ledger, input, pos, fed, pc, output>>

\* pub fn handle_transaction: one call, of any variant
Next == Deposit \/ Withdrawal \/ Dispute \/ Resolve \/ Chargeback

Spec == Init /\ [][Next]_vars

\* ------------------------------------------------------------------ main
MaxRows == 2

\* Option<D128>, the type of TransactionRow.amount
None == [some |-> FALSE]
Some(amount) == [some |-> TRUE, value |-> amount]

\* struct TransactionRow, as the CSV reader deserializes a row
TransactionRow ==
    [type : {"Deposit", "Withdrawal", "Dispute", "Resolve", "Chargeback"},
     client : CustomerId, tx : TransactionId,
     amount : {None} \cup {Some(amount) : amount \in D128}]

\* the input files of at most MaxRows rows
Inputs == UNION {[1..n -> TransactionRow] : n \in 0..MaxRows}

\* try_from that drops the amount of a dispute, resolve or chargeback row
\* instead of refusing the row
try_from_drops_amount(row) ==
    IF row.type \in {"Deposit", "Withdrawal"}
    THEN IF row.amount = None
         THEN [ok |-> FALSE]
         ELSE [ok |-> TRUE,
               tx |-> [type |-> row.type, client |-> row.client,
                       tx |-> row.tx, amount |-> row.amount.value]]
    ELSE [ok |-> TRUE,
          tx |-> [type |-> row.type, client |-> row.client, tx |-> row.tx]]

\* impl TryFrom<TransactionRow> for Transaction: Ok(tx) or Err
try_from(row) ==
    IF row.type \in {"Deposit", "Withdrawal"}
    THEN IF row.amount = None
         THEN [ok |-> FALSE]
         ELSE [ok |-> TRUE,
               tx |-> [type |-> row.type, client |-> row.client,
                       tx |-> row.tx, amount |-> row.amount.value]]
    ELSE IF row.amount # None
         THEN [ok |-> FALSE]
         ELSE [ok |-> TRUE,
               tx |-> [type |-> row.type, client |-> row.client, tx |-> row.tx]]

\* pub fn handle_transaction: the match on the variant
handle_transaction(t) ==
    CASE t.type = "Deposit" -> deposit(t.client, t.tx, t.amount)
      [] t.type = "Withdrawal" -> withdraw(t.client, t.tx, t.amount)
      [] t.type = "Dispute" -> dispute(t.client, t.tx)
      [] t.type = "Resolve" -> resolve(t.client, t.tx)
      [] t.type = "Chargeback" -> chargeback(t.client, t.tx)

\* main starts with an empty engine and some input file
InitMain ==
    /\ accounts = << >>
    /\ transactions = << >>
    /\ handled = NoTransaction
    /\ returned = FALSE
    /\ before = [accounts |-> << >>, transactions |-> << >>]
    /\ panicked = FALSE
    /\ ledger = << >>
    /\ input \in Inputs
    /\ pos = 0
    /\ fed = << >>
    /\ pc = "running"
    /\ output = {}

\* one turn of the loop on a row that decodes: let tx = result?; then
\* engine.handle_transaction(tx), its bool ignored
HandleRow ==
    /\ pc = "running"
    /\ ~panicked
    /\ pos < Len(input)
    /\ try_from(input[pos + 1]).ok
    /\ LET t == try_from(input[pos + 1]).tx
           r == handle_transaction(t)
       IN  /\ accounts' = r.accounts
           /\ transactions' = r.transactions
           /\ returned' = r.ret
           /\ panicked' = r.panic
           /\ handled' = t
           /\ before' = self
           /\ ledger' = IF t.type \in {"Deposit", "Withdrawal"}
                        THEN record_applied(t.type, t.client, t.tx, t.amount, r.ret)
                        ELSE ledger
           /\ fed' = Append(fed, t)
    /\ pos' = pos + 1
    /\ UNCHANGED <<input, pc, output>>

\* one turn of the loop on a row that does not decode: result? returns the
\* error from main
DecodeError ==
    /\ pc = "running"
    /\ ~panicked
    /\ pos < Len(input)
    /\ ~try_from(input[pos + 1]).ok
    /\ pos' = pos + 1
    /\ pc' = "failed"
    /\ UNCHANGED <<input, fed, output>>
    /\ UNCHANGED engineVars

\* after the loop: engine.account_states() and one writer.serialize per record
WriteAccounts ==
    /\ pc = "running"
    /\ ~panicked
    /\ pos = Len(input)
    /\ output' = account_states
    /\ pc' = "done"
    /\ UNCHANGED <<input, pos, fed>>
    /\ UNCHANGED engineVars

NextMain == HandleRow \/ DecodeError \/ WriteAccounts

SpecMain == InitMain /\ [][NextMain]_vars

\* ------------------------------------------------------------ well-formedness
TypeOK ==
    /\ DOMAIN accounts \subseteq CustomerId
    /\ \A c \in DOMAIN accounts :
          /\ accounts[c].available \in Int
          /\ accounts[c].held \in Int
          /\ accounts[c].locked \in BOOLEAN
    /\ DOMAIN transactions \subseteq TransactionId
    /\ handled \in Transaction \cup {NoTransaction}
    /\ returned \in BOOLEAN
    /\ DOMAIN before.accounts \subseteq DOMAIN accounts
    /\ DOMAIN before.transactions \subseteq DOMAIN transactions
    /\ panicked \in BOOLEAN
    /\ DOMAIN ledger \subseteq DOMAIN transactions
    /\ pos \in 0..Len(input)
    /\ Len(fed) <= pos
    /\ pc \in {"running", "failed", "done"}

\* ---------------------------------------------------------- pre-state views
\* the account the latest Deposit or Withdrawal worked on: the stored one,
\* or the default one that or_default created
AccountBefore(client) ==
    IF client \in DOMAIN before.accounts
    THEN before.accounts[client]
    ELSE DefaultAccount

\* when the latest call began, tx was recorded in the given state for client
RecordedFor(tx, state, client) ==
    /\ tx \in DOMAIN before.transactions
    /\ before.transactions[tx].state = state
    /\ before.transactions[tx].client = client

\* when the latest call began, tx was recorded in one of the given states
RecordedIn(tx, states) ==
    /\ tx \in DOMAIN before.transactions
    /\ before.transactions[tx].state \in states

LockedBefore(client) ==
    client \in DOMAIN before.accounts /\ before.accounts[client].locked

DisputeKinds == {"Dispute", "Resolve", "Chargeback"}
FundKinds == {"Deposit", "Withdrawal"}

\* =================================================================== claims

\* C1: from the empty engine, after every step of every sequence of
\* transactions (amounts ranging over every D128 a Deposit or Withdrawal can
\* carry), the held balance of every account is >= 0.
\* Refuted by the code: Deposit(1, 1, -1) then Dispute(1, 1) leaves held = -1.
C1_HeldNeverNegative ==
    \A c \in DOMAIN accounts : accounts[c].held >= 0

\* C2: after every step, each record returned by account_states has
\* total = available + held, with available and held the stored balances of
\* the record's account, and there is one record per account.
C2_TotalIsAvailablePlusHeld ==
    /\ \A r \in account_states :
          /\ r.client \in DOMAIN accounts
          /\ r.available = accounts[r.client].available
          /\ r.held = accounts[r.client].held
          /\ r.total = accounts[r.client].available + accounts[r.client].held
    /\ Cardinality(account_states) = Cardinality(DOMAIN accounts)

\* an account whose funds were withdrawn and then disputed: available
\* negative, held positive, total zero
C2_Witness ==
    /\ handled.type = "Dispute"
    /\ returned
    /\ \E r \in account_states :
          /\ r.client = handled.client
          /\ r.available < 0
          /\ r.held > 0
          /\ r.total = 0

\* C3: a Deposit or Withdrawal whose transaction id already has a recorded
\* state (any kind, any client) returns false, locked account or not, and
\* every recorded state stays as its first writer left it.
C3_ReusedIdRejected ==
    (handled.type \in FundKinds /\ handled.tx \in DOMAIN before.transactions)
        => /\ returned = FALSE
           /\ transactions = before.transactions

\* a Deposit on an unlocked account was rejected because another client's
\* withdrawal had taken its id
C3_Witness ==
    /\ handled.type = "Deposit"
    /\ ~returned
    /\ ~accounts[handled.client].locked
    /\ RecordedIn(handled.tx, {"Withdrawed"})
    /\ transactions[handled.tx] = Withdrawed
    /\ \E c \in DOMAIN accounts : c # handled.client /\ accounts[c].available # 0

\* C4: once an account is locked, every later Deposit and Withdrawal naming
\* that client returns false and changes no balance, while a Dispute of one
\* of its Deposited transactions and a Resolve or Chargeback of one of its
\* Disputed transactions is still applied on the locked account: it returns
\* true and moves the transaction's amount between the balances.
C4_LockBlocksFundsNotDisputes ==
    LET c == handled.client
        tx == handled.tx
        old == before.accounts[c]
        amount == before.transactions[tx].amount
    IN  /\ (handled.type \in FundKinds /\ LockedBefore(c))
            => /\ returned = FALSE
               /\ accounts = before.accounts
        /\ (handled.type = "Dispute" /\ LockedBefore(c) /\ RecordedFor(tx, "Deposited", c))
            => /\ returned = TRUE
               /\ accounts[c].held = old.held + amount
               /\ accounts[c].available = old.available - amount
               /\ accounts[c].locked
        /\ (handled.type = "Resolve" /\ LockedBefore(c) /\ RecordedFor(tx, "Disputed", c))
            => /\ returned = TRUE
               /\ accounts[c].held = old.held - amount
               /\ accounts[c].available = old.available + amount
               /\ accounts[c].locked
        /\ (handled.type = "Chargeback" /\ LockedBefore(c) /\ RecordedFor(tx, "Disputed", c))
            => /\ returned = TRUE
               /\ accounts[c].held = old.held - amount
               /\ accounts[c].available = old.available
               /\ accounts[c].locked

\* a Dispute of a non-zero deposit was applied on an account that was
\* already locked, and changed its balances
C4_Witness ==
    /\ handled.type = "Dispute"
    /\ returned
    /\ LockedBefore(handled.client)
    /\ transactions[handled.tx].amount > 0
    /\ accounts[handled.client].held # before.accounts[handled.client].held
    /\ accounts[handled.client].available # before.accounts[handled.client].available

\* C5: the recorded state of a transaction id changes only along
\* Deposited -> Disputed -> Resolved or Deposited -> Disputed -> ChargedBack,
\* each step taken only by a Dispute, Resolve or Chargeback naming the
\* depositing client; a Withdrawed, Resolved or ChargedBack state never
\* changes again, and no recorded state is ever deleted.
C5_StateMachine ==
    \A tx \in DOMAIN before.transactions :
        /\ tx \in DOMAIN transactions
        /\ LET old == before.transactions[tx]
               new == transactions[tx]
           IN  \/ new = old
               \/ /\ old.state = "Deposited"
                  /\ new = Disputed(old.client, old.amount)
                  /\ handled = [type |-> "Dispute", client |-> old.client, tx |-> tx]
                  /\ returned
               \/ /\ old.state = "Disputed"
                  /\ new = Resolved
                  /\ handled = [type |-> "Resolve", client |-> old.client, tx |-> tx]
                  /\ returned
               \/ /\ old.state = "Disputed"
                  /\ new = ChargedBack
                  /\ handled = [type |-> "Chargeback", client |-> old.client, tx |-> tx]
                  /\ returned

\* one transaction has gone Deposited -> Disputed -> Resolved and another
\* has just gone Disputed -> ChargedBack
C5_Witness ==
    /\ handled.type = "Chargeback"
    /\ returned
    /\ RecordedIn(handled.tx, {"Disputed"})
    /\ transactions[handled.tx] = ChargedBack
    /\ \E tx \in DOMAIN transactions : transactions[tx] = Resolved

\* C6: a successful Resolve leaves its transaction Resolved and a successful
\* Chargeback leaves it ChargedBack; any Dispute, Resolve or Chargeback of an
\* id in one of these states returns false and leaves every account's
\* available, held and locked as they were.
C6_TerminalStatesReject ==
    /\ (handled.type = "Resolve" /\ returned) => transactions[handled.tx] = Resolved
    /\ (handled.type = "Chargeback" /\ returned) => transactions[handled.tx] = ChargedBack
    /\ (handled.type \in DisputeKinds /\ RecordedIn(handled.tx, {"Resolved", "ChargedBack"}))
        => /\ returned = FALSE
           /\ accounts = before.accounts

\* a Dispute of a resolved transaction was rejected; the account still holds
\* the released funds
C6_Witness ==
    /\ handled.type = "Dispute"
    /\ ~returned
    /\ RecordedIn(handled.tx, {"Resolved"})
    /\ handled.client \in DOMAIN accounts
    /\ accounts[handled.client].available > 0
    /\ accounts[handled.client].held = 0

\* C7: a successful Withdrawal records its id as Withdrawed, and a Dispute,
\* Resolve or Chargeback of an id recorded as Withdrawed returns false and
\* changes no balance, whichever client asks.
C7_WithdrawalNotDisputable ==
    /\ (handled.type = "Withdrawal" /\ returned) => transactions[handled.tx] = Withdrawed
    /\ (handled.type \in DisputeKinds /\ RecordedIn(handled.tx, {"Withdrawed"}))
        => /\ returned = FALSE
           /\ accounts = before.accounts
           /\ transactions[handled.tx] = Withdrawed

\* the client that withdrew a positive amount disputed its own withdrawal
\* and was rejected
C7_Witness ==
    /\ handled.type = "Dispute"
    /\ ~returned
    /\ RecordedIn(handled.tx, {"Withdrawed"})
    /\ handled.client \in DOMAIN accounts
    /\ accounts[handled.client].available = 0
    /\ \E tx \in DOMAIN transactions :
          /\ transactions[tx].state = "Deposited"
          /\ transactions[tx].client = handled.client
          /\ transactions[tx].amount > 0

\* C8: a Dispute, Resolve or Chargeback naming a client other than the one
\* that made the deposit returns false and changes neither the recorded
\* state of any transaction nor any account: no balance of the depositor
\* moves and no account appears for the requester.
C8_ClientMismatchRejected ==
    (/\ handled.type \in DisputeKinds
     /\ RecordedIn(handled.tx, {"Deposited", "Disputed"})
     /\ before.transactions[handled.tx].client # handled.client)
        => /\ returned = FALSE
           /\ transactions = before.transactions
           /\ accounts = before.accounts

\* another client, which has an account of its own, asked to resolve a
\* disputed deposit and was rejected
C8_Witness ==
    /\ handled.type = "Resolve"
    /\ ~returned
    /\ RecordedIn(handled.tx, {"Disputed"})
    /\ transactions[handled.tx].client # handled.client
    /\ transactions[handled.tx].amount > 0
    /\ handled.client \in DOMAIN accounts

\* C9: Withdrawal(client, tx, amount) is applied exactly when the account is
\* not locked, available >= amount and tx has no recorded state; applied, it
\* subtracts amount from available, leaves held unchanged and records
\* Withdrawed; rejected, it leaves available, held and the recorded states
\* unchanged.  Sufficiency is judged by available alone, not by
\* available + held.
C9_WithdrawalRule ==
    handled.type = "Withdrawal" =>
        LET c == handled.client
            old == AccountBefore(c)
            applied == /\ ~old.locked
                       /\ old.available >= handled.amount
                       /\ handled.tx \notin DOMAIN before.transactions
        IN  /\ returned = applied
            /\ accounts[c].held = old.held
            /\ accounts[c].locked = old.locked
            /\ applied => /\ accounts[c].available = old.available - handled.amount
                          /\ transactions[handled.tx] = Withdrawed
            /\ ~applied => /\ accounts[c].available = old.available
                           /\ transactions = before.transactions

\* a Withdrawal with a fresh id on an unlocked account was rejected although
\* available + held covered the amount: available alone did not
C9_Witness ==
    /\ handled.type = "Withdrawal"
    /\ ~returned
    /\ handled.tx \notin DOMAIN before.transactions
    /\ ~AccountBefore(handled.client).locked
    /\ AccountBefore(handled.client).available < handled.amount
    /\ handled.amount <= AccountBefore(handled.client).available
                         + AccountBefore(handled.client).held

\* C10: a Dispute of a Deposited transaction by its depositor is applied even
\* when available is smaller than the deposited amount, and leaves available
\* negative; a Resolve of the same transaction by the same client directly
\* after an applied Dispute is applied and puts available, held and locked
\* back to the values they had before the Dispute.
C10_DisputeThenResolveRestores ==
    /\ [](LET c == handled.client
              amount == before.transactions[handled.tx].amount
          IN  (/\ handled.type = "Dispute"
               /\ RecordedFor(handled.tx, "Deposited", c)
               /\ before.accounts[c].available < amount)
                 => /\ returned = TRUE
                    /\ accounts[c].available = before.accounts[c].available - amount
                    /\ accounts[c].available < 0)
    /\ [][ (/\ handled.type = "Dispute"
            /\ returned
            /\ handled' = [type |-> "Resolve", client |-> handled.client, tx |-> handled.tx])
              => /\ returned' = TRUE
                 /\ accounts'[handled.client] = before.accounts[handled.client] ]_vars

\* the funds of a deposit were withdrawn, the deposit was disputed, which
\* left available negative, and the Resolve has just brought the account
\* back to zero available and zero held
C10_Witness ==
    /\ handled.type = "Resolve"
    /\ returned
    /\ before.accounts[handled.client].available < 0
    /\ before.accounts[handled.client].held > 0
    /\ accounts[handled.client] = DefaultAccount
    /\ \E tx \in DOMAIN transactions : transactions[tx] = Withdrawed

\* C11: a Chargeback of a transaction Disputed by the same client is applied:
\* with a the disputed amount, it decreases held by a, leaves available
\* unchanged (so available + held drops by a), sets locked and records
\* ChargedBack, also when available is negative; no other Chargeback returns
\* true.
C11_ChargebackEffect ==
    LET c == handled.client
        tx == handled.tx
        old == before.accounts[c]
        a == before.transactions[tx].amount
    IN  handled.type = "Chargeback" =>
            /\ returned = RecordedFor(tx, "Disputed", c)
            /\ returned =>
                  /\ accounts[c].held = old.held - a
                  /\ accounts[c].available = old.available
                  /\ accounts[c].available + accounts[c].held
                        = old.available + old.held - a
                  /\ accounts[c].locked
                  /\ transactions[tx] = ChargedBack

\* a dispute of funds already withdrawn was charged back: available stays
\* negative, held is back to zero, the account is locked
C11_Witness ==
    /\ handled.type = "Chargeback"
    /\ returned
    /\ before.accounts[handled.client].held > 0
    /\ before.accounts[handled.client].available < 0
    /\ ~before.accounts[handled.client].locked
    /\ accounts[handled.client].available < 0
    /\ accounts[handled.client].held = 0
    /\ accounts[handled.client].locked

\* C12: locked is monotonic: an account that was locked when a call began
\* still exists and is still locked when the call has returned, whatever the
\* transaction.
C12_LockedMonotonic ==
    \A c \in DOMAIN before.accounts :
        before.accounts[c].locked
            => (c \in DOMAIN accounts /\ accounts[c].locked)

\* a Resolve was applied on a locked account and the account is still locked
C12_Witness ==
    /\ handled.type = "Resolve"
    /\ returned
    /\ LockedBefore(handled.client)
    /\ accounts[handled.client].locked
    /\ accounts[handled.client].available
          # before.accounts[handled.client].available

\* C13: from the empty engine no sequence of transactions reaches the
\* expect() panic of dispute, resolve or chargeback: every transaction
\* recorded as Deposited or Disputed for a client has an account of that
\* client, so a call either is applied or returns false.
C13_NoPanic ==
    /\ ~panicked
    /\ \A tx \in DOMAIN transactions :
          transactions[tx].state \in {"Deposited", "Disputed"}
              => transactions[tx].client \in DOMAIN accounts

\* a client without an account asked to dispute another client's deposit:
\* the call returned false, nothing panicked and no account was made
C13_Witness ==
    /\ handled.type = "Dispute"
    /\ ~returned
    /\ ~panicked
    /\ RecordedIn(handled.tx, {"Deposited"})
    /\ handled.client \notin DOMAIN accounts

\* C14: after handle_transaction has processed a transaction of any of the
\* five kinds naming client c, account_states holds exactly one record for c,
\* with zero balances and unlocked if c was unknown and nothing was applied,
\* and no record is ever removed.
\* Refuted by the code: Dispute(1, 1) on the empty engine returns false at
\* the transactions lookup and leaves account_states empty.
C14_AccountCreatedByAnyKind ==
    handled.type # "None" =>
        /\ Cardinality({r \in account_states : r.client = handled.client}) = 1
        /\ (handled.client \notin DOMAIN before.accounts /\ ~returned)
              => accounts[handled.client] = DefaultAccount
        /\ DOMAIN before.accounts \subseteq DOMAIN accounts

\* C15 as claimed: a rejected Deposit or Withdrawal records or alters no
\* transaction state, changes no balance or lock flag, and leaves the set of
\* accounts as it was.
C15_RejectedIsNoOp ==
    (handled.type \in FundKinds /\ ~returned) =>
        /\ transactions = before.transactions
        /\ accounts = before.accounts

\* C15 as amended: a rejected Deposit or Withdrawal records or alters no
\* transaction state and changes no balance or lock flag of any account that
\* existed; its one effect is that the named client, if it had no account,
\* now has one with zero balances, unlocked.
C15_RejectedOnlyCreatesAccount ==
    (handled.type \in FundKinds /\ ~returned) =>
        /\ transactions = before.transactions
        /\ \A c \in DOMAIN before.accounts :
              c \in DOMAIN accounts /\ accounts[c] = before.accounts[c]
        /\ DOMAIN accounts = DOMAIN before.accounts \cup {handled.client}
        /\ handled.client \notin DOMAIN before.accounts
              => accounts[handled.client] = DefaultAccount

\* a Withdrawal naming an unknown client was rejected for lack of funds while
\* another client had funds; the unknown client now has the default account
C15_Witness ==
    /\ handled.type = "Withdrawal"
    /\ ~returned
    /\ handled.client \notin DOMAIN before.accounts
    /\ handled.client \in DOMAIN accounts
    /\ accounts[handled.client] = DefaultAccount
    /\ \E c \in DOMAIN before.accounts : before.accounts[c].available > 0

\* the ids recorded as Disputed for client c, and the sum of their amounts
DisputedOf(c) ==
    {tx \in DOMAIN transactions :
        transactions[tx].state = "Disputed" /\ transactions[tx].client = c}

RECURSIVE SumAmounts(_, _)
SumAmounts(txs, ids) ==
    IF ids = {}
    THEN 0
    ELSE LET tx == CHOOSE t \in ids : TRUE
         IN  txs[tx].amount + SumAmounts(txs, ids \ {tx})

\* C17: in every state reachable from the empty engine, each account's held
\* equals the sum of the amounts of that client's transactions currently
\* recorded as Disputed (zero when there are none), and a client without an
\* account has none.
C17_HeldIsSumOfDisputed ==
    /\ \A c \in DOMAIN accounts :
          accounts[c].held = SumAmounts(transactions, DisputedOf(c))
    /\ \A c \in CustomerId \ DOMAIN accounts : DisputedOf(c) = {}

\* an account with two deposits under dispute at once, holding both amounts
C17_Witness ==
    \E c \in DOMAIN accounts :
        /\ Cardinality(DisputedOf(c)) = 2
        /\ \A tx \in DisputedOf(c) : transactions[tx].amount > 0
        /\ accounts[c].held = 2

\* the ids under which a Deposit / a Withdrawal of client c was applied, and
\* those of its deposits now recorded in one of the given states
DepositsOf(c) ==
    {tx \in DOMAIN ledger : ledger[tx].kind = "Deposit" /\ ledger[tx].client = c}

WithdrawalsOf(c) ==
    {tx \in DOMAIN ledger : ledger[tx].kind = "Withdrawal" /\ ledger[tx].client = c}

DepositsIn(c, states) ==
    {tx \in DepositsOf(c) : transactions[tx].state \in states}

\* C18: in every state reachable from the empty engine, each account's
\* available + held equals the sum of the amounts of that client's applied
\* deposits, minus the sum of its applied withdrawals, minus the sum of the
\* amounts of its ChargedBack transactions; rejected transactions contribute
\* nothing.
C18_TotalIsNetOfApplied ==
    \A c \in DOMAIN accounts :
        accounts[c].available + accounts[c].held
            = SumAmounts(ledger, DepositsOf(c))
              - SumAmounts(ledger, WithdrawalsOf(c))
              - SumAmounts(ledger, DepositsIn(c, {"ChargedBack"}))

\* a client deposited twice, one deposit was charged back, and a further
\* Deposit was then rejected on the locked account: the total is what the
\* other deposit left
C18_Witness ==
    /\ handled.type = "Deposit"
    /\ ~returned
    /\ handled.amount > 0
    /\ LET c == handled.client
       IN  /\ Cardinality(DepositsOf(c)) = 2
           /\ Cardinality(DepositsIn(c, {"ChargedBack"})) = 1
           /\ \A tx \in DepositsOf(c) : ledger[tx].amount > 0
           /\ accounts[c].available + accounts[c].held = 1

\* C19: when every applied deposit and withdrawal amount is non-negative, an
\* account's available is negative only while at least one of that client's
\* deposits is recorded as Disputed or ChargedBack.
C19_NegativeOnlyUnderDispute ==
    (\A tx \in DOMAIN ledger : ledger[tx].amount >= 0)
        => \A c \in DOMAIN accounts :
              accounts[c].available < 0
                  => DepositsIn(c, {"Disputed", "ChargedBack"}) # {}

\* with only non-negative amounts, an account is left with negative
\* available by a charged-back deposit whose funds had been withdrawn
C19_Witness ==
    /\ \A tx \in DOMAIN ledger : ledger[tx].amount >= 0
    /\ \E c \in DOMAIN accounts :
          /\ accounts[c].available < 0
          /\ accounts[c].held = 0
          /\ DepositsIn(c, {"ChargedBack"}) # {}
          /\ WithdrawalsOf(c) # {}

\* C20: in every state reachable from the empty engine an account is locked
\* if and only if one of that client's transactions is recorded as
\* ChargedBack, a client without an account has none, and an account only
\* becomes locked in a call that is a successful Chargeback naming it.
C20_LockedIffChargedBack ==
    /\ \A c \in DOMAIN accounts :
          /\ accounts[c].locked <=> DepositsIn(c, {"ChargedBack"}) # {}
          /\ (accounts[c].locked /\ ~LockedBefore(c))
                => /\ handled.type = "Chargeback"
                   /\ handled.client = c
                   /\ returned
    /\ \A c \in CustomerId \ DOMAIN accounts : DepositsIn(c, {"ChargedBack"}) = {}
    /\ \A tx \in DOMAIN transactions :
          transactions[tx] = ChargedBack
              => (tx \in DOMAIN ledger /\ ledger[tx].kind = "Deposit")

\* one client is locked by its charged-back deposit while the other, whose
\* disputed deposit was resolved, is not
C20_Witness ==
    \E c, d \in DOMAIN accounts :
        /\ accounts[c].locked
        /\ DepositsIn(c, {"ChargedBack"}) # {}
        /\ ~accounts[d].locked
        /\ DepositsIn(d, {"Resolved"}) # {}

\* a row with one of the structural faults: a deposit or withdrawal without
\* an amount, or a dispute, resolve or chargeback with one
Malformed(row) ==
    \/ row.type \in FundKinds /\ row.amount = None
    \/ row.type \in DisputeKinds /\ row.amount # None

\* the transaction a well-formed row stands for
Decoded(row) ==
    IF row.type \in FundKinds
    THEN [type |-> row.type, client |-> row.client, tx |-> row.tx,
          amount |-> row.amount.value]
    ELSE [type |-> row.type, client |-> row.client, tx |-> row.tx]

\* C16: main hands the decoded rows to the engine one at a time in input
\* order, each exactly once; a malformed row is never handled and ends the
\* run, so no later row is handled and no account record is output; account
\* records are output only after every row has been handled.
C16_RowsFedInOrder ==
    LET n == Len(fed) IN
    /\ n <= pos /\ pos <= Len(input)
    /\ \A i \in 1..n : ~Malformed(input[i]) /\ fed[i] = Decoded(input[i])
    /\ n > 0 => handled = fed[n]
    /\ pc = "running" => (pos = n /\ output = {})
    /\ pc = "failed" => /\ pos = n + 1
                        /\ Malformed(input[pos])
                        /\ output = {}
    /\ pc = "done" => /\ n = Len(input)
                      /\ output = account_states

\* the second row of the file is malformed: the first was handled and made
\* an account, the run has failed, and nothing was output
C16_Witness ==
    /\ pc = "failed"
    /\ Len(fed) = 1
    /\ pos = 2
    /\ input[2].type = "Dispute"
    /\ input[2].amount = Some(1)
    /\ DOMAIN accounts # {}
    /\ output = {}

====
